---- MODULE Spec2Model ----
(***************************************************************************)
(* Model of py_webdav_stress_test.py: main() builds request_count          *)
(* fetch_head coroutines, runs them under asyncio.gather behind an         *)
(* asyncio.Semaphore(concurrency), and prints a report from the shared     *)
(* stats dictionary.  The HTTP client and the network are the environment: *)
(* what a HEAD call returns or raises is chosen nondeterministically.      *)
(***************************************************************************)
EXTENDS Integers, Sequences, FiniteSets, TLC

VARIABLES
    args,           \* args.target_base_url (its path), args.username, args.password
    srv,            \* the reference server: the HEAD request it is given, its answer
    url,            \* the path of each coroutine's target_url
    arrival,        \* time at which a task waiting at the gate reached it
    calls,          \* number of HEAD calls each request has issued
    report,         \* the status distribution lines printed by the report
    request_count,  \* args.request_count
    concurrency,    \* args.concurrency
    mainpc,         \* position of main(): "build", "gather", "report", "aborted"
    i,              \* number of loop iterations of the build loop completed
    progress,       \* last value written to the progress line (0: none yet)
    pauses,         \* number of time.sleep(1) calls made by the build loop
    semaphore,      \* free permits of the asyncio.Semaphore
    pc,             \* position of each fetch_head coroutine
    start_time,     \* start_time local of each fetch_head
    status,         \* status local of each fetch_head (Unbound: not assigned)
    stats,          \* the shared stats dictionary
    now,            \* time.perf_counter()
    cause,          \* what the network did to each HEAD call
    code,           \* response.status of each HEAD call that was answered
    incS,           \* times each request incremented successful_requests
    incF,           \* times each request incremented failed_requests
    finallyRuns,    \* times each request entered its finally block
    recorded        \* times each request incremented status_code_counts

vars == <<args, srv, url, arrival, calls, report, request_count, concurrency, mainpc, i, progress, pauses, semaphore,
          pc, start_time, status, stats, now, cause, code, incS, incF,
          finallyRuns, recorded>>

(* Bounds of the model. *)
MaxRequests == 2
MaxConcurrency == 2
MaxTime == 1

(* Program constants. *)
PauseEvery == 10000
ProgressEvery == 1000

Tasks == 1..MaxRequests

(* The status codes a server answers with. *)
StatusCodes == {200, 401}

(* Strings are sequences of ASCII codes, so that str() and the ordering of *)
(* labels are computed rather than assumed.                                *)
NetworkError == <<78, 101, 116, 119, 111, 114, 107, 69, 114, 114, 111, 114>>
Timeout == <<84, 105, 109, 101, 111, 117, 116>>
Unbound == <<>>

\* str(n) of a non-negative int: its decimal digits.
RECURSIVE Str(_)
Str(n) == IF n < 10 THEN <<48 + n>> ELSE Str(n \div 10) \o <<48 + (n % 10)>>

(* An exception is known by the handlers it matches:                       *)
(* client: isinstance(e, aiohttp.ClientError),                             *)
(* timeout: isinstance(e, asyncio.TimeoutError).                           *)
Exceptions == [client : BOOLEAN, timeout : BOOLEAN]

\* What the HTTP client may raise for each thing the network does.
RaisedBy(c) ==
    CASE c = "network" -> {e \in Exceptions : e.client /\ ~e.timeout}
      [] c = "timeout" -> {e \in Exceptions : e.timeout}
      [] c = "other"   -> {e \in Exceptions : ~e.client /\ ~e.timeout}

\* The except clause that handles e, tried in the order written.
Handler(e) ==
    IF e.client THEN "ClientError"
    ELSE IF e.timeout THEN "TimeoutError"
    ELSE "none"

\* Mutant: the two except clauses carry each other's label.
HandlerLabelSwapped(h) == IF h = "ClientError" THEN Timeout ELSE NetworkError

\* The label the except clause assigns to status.
HandlerLabel(h) == IF h = "ClientError" THEN NetworkError ELSE Timeout

\* Counter: c[k] += 1, the key created on first occurrence.
CounterInc(c, k) ==
    IF k \in DOMAIN c THEN [c EXCEPT ![k] = @ + 1] ELSE c @@ (k :> 1)

RECURSIVE SumOver(_, _)
SumOver(c, ks) ==
    IF ks = {} THEN 0
    ELSE LET k == CHOOSE x \in ks : TRUE IN c[k] + SumOver(c, ks \ {k})

\* sum(counter.values())
CounterTotal(c) == SumOver(c, DOMAIN c)

EmptyCounter == [k \in {} |-> 0]

(* ------------------- strings, URLs and Basic credentials --------------- *)

\* f"{b:02X}": two uppercase hexadecimal digits, zero padded.
HexDigit(d) == IF d < 10 THEN 48 + d ELSE 55 + d
Hex2(b) == <<HexDigit(b \div 16), HexDigit(b % 16)>>

\* "/evidence/"
EvidencePrefix == <<47, 101, 118, 105, 100, 101, 110, 99, 101, 47>>

\* s.rstrip('/')
RECURSIVE RStripSlash(_)
RStripSlash(s) ==
    IF Len(s) > 0 /\ s[Len(s)] = 47 THEN RStripSlash(SubSeq(s, 1, Len(s) - 1))
    ELSE s

\* Mutant: the base URL is used as given, a trailing slash included.
TargetPathUnstripped(base, b) == base \o EvidencePrefix \o Hex2(b)

\* The path of target_url for a base URL whose path is `base`.
TargetPath(base, b) == RStripSlash(base) \o EvidencePrefix \o Hex2(b)

\* s.startswith(prefix)
StartsWith(s, prefix) ==
    Len(s) >= Len(prefix) /\ SubSeq(s, 1, Len(prefix)) = prefix

\* Index of the first occurrence of character ch in s, 0 if there is none.
RECURSIVE FindFrom(_, _, _)
FindFrom(s, ch, k) ==
    IF k > Len(s) THEN 0 ELSE IF s[k] = ch THEN k ELSE FindFrom(s, ch, k + 1)
Find(s, ch) == FindFrom(s, ch, 1)

\* str.lower() on ASCII.
LowerStr(s) == [k \in 1..Len(s) |-> IF s[k] >= 65 /\ s[k] <= 90 THEN s[k] + 32 ELSE s[k]]

\* The base64 alphabet: the character of a 6-bit value, and the value of a
\* character (-1 outside the alphabet).
B64Char(v) ==
    IF v < 26 THEN 65 + v
    ELSE IF v < 52 THEN 97 + (v - 26)
    ELSE IF v < 62 THEN 48 + (v - 52)
    ELSE IF v = 62 THEN 43 ELSE 47

B64Value(c) ==
    IF c >= 65 /\ c <= 90 THEN c - 65
    ELSE IF c >= 97 /\ c <= 122 THEN c - 97 + 26
    ELSE IF c >= 48 /\ c <= 57 THEN c - 48 + 52
    ELSE IF c = 43 THEN 62
    ELSE IF c = 47 THEN 63 ELSE -1

\* base64.b64encode: three bytes to four characters, '=' padded.
RECURSIVE B64Encode(_)
B64Encode(b) ==
    IF Len(b) = 0 THEN <<>>
    ELSE IF Len(b) = 1
    THEN <<B64Char(b[1] \div 4), B64Char((b[1] % 4) * 16), 61, 61>>
    ELSE IF Len(b) = 2
    THEN <<B64Char(b[1] \div 4), B64Char((b[1] % 4) * 16 + b[2] \div 16),
           B64Char((b[2] % 16) * 4), 61>>
    ELSE <<B64Char(b[1] \div 4), B64Char((b[1] % 4) * 16 + b[2] \div 16),
           B64Char((b[2] % 16) * 4 + b[3] \div 64), B64Char(b[3] % 64)>>
         \o B64Encode(SubSeq(b, 4, Len(b)))

RECURSIVE DecodeQuads(_)
DecodeQuads(v) ==
    IF Len(v) < 2 THEN <<>>
    ELSE IF Len(v) = 2 THEN <<v[1] * 4 + v[2] \div 16>>
    ELSE IF Len(v) = 3
    THEN <<v[1] * 4 + v[2] \div 16, (v[2] % 16) * 16 + v[3] \div 4>>
    ELSE <<v[1] * 4 + v[2] \div 16, (v[2] % 16) * 16 + v[3] \div 4,
           (v[3] % 4) * 64 + v[4]>>
         \o DecodeQuads(SubSeq(v, 5, Len(v)))

InAlphabet(c) == B64Value(c) >= 0
IsPad(c) == c = 61

\* base64.b64decode(s) without validate: characters outside the alphabet
\* are discarded, then the padding must complete the last group (padding
\* at the end of the input).  ok = FALSE stands for binascii.Error.
B64Decode(chars) ==
    LET data == SelectSeq(chars, InAlphabet)
        v == [k \in 1..Len(data) |-> B64Value(data[k])]
        pads == Len(SelectSeq(chars, IsPad))
        r == Len(v) % 4
    IN  IF r = 0 \/ (r = 2 /\ pads >= 2) \/ (r = 3 /\ pads >= 1)
        THEN [ok |-> TRUE, bytes |-> DecodeQuads(v)]
        ELSE [ok |-> FALSE, bytes |-> <<>>]

\* bytes.decode("utf-8") succeeds; the inputs hold no multi-byte sequence.
Utf8Ok(bytes) == \A k \in 1..Len(bytes) : bytes[k] < 128

\* aiohttp.BasicAuth(username, password) as an Authorization header.
BasicAuthHeader(u, p) == <<66, 97, 115, 105, 99, 32>> \o B64Encode(u \o <<58>> \o p)

(* ------------------------ simple_webdav_server ------------------------ *)

USERNAME == <<116, 101, 115, 116, 117, 115, 101, 114>>
PASSWORD == <<116, 101, 115, 116, 112, 97, 115, 115, 119, 111, 114, 100>>
Challenge == <<66, 97, 115, 105, 99, 32, 114, 101, 97, 108, 109, 61, 34, 87, 101, 98, 68, 65, 86, 32, 84, 101, 115, 116, 32, 82, 101, 97, 108, 109, 34>>
Dash == <<45>>
InvalidUser == <<105, 110, 118, 97, 108, 105, 100, 95, 117, 115, 101, 114>>
SchemeBasic == <<98, 97, 115, 105, 99>>

\* self.headers.get("Authorization") of a request without the header.
None == <<-1>>

\* Mutant: the scheme is compared as sent, case included.
SchemeMatchesExactly(scheme) == scheme = SchemeBasic

\* scheme.lower() == "basic"
SchemeMatches(scheme) == LowerStr(scheme) = SchemeBasic

\* authenticate: <<result, username_for_log>>.
Authenticate(auth_header) ==
    IF auth_header = None THEN [ok |-> FALSE, user |-> Dash]
    ELSE
    LET rejected == [ok |-> FALSE, user |-> InvalidUser]
        sp == Find(auth_header, 32)
        scheme == SubSeq(auth_header, 1, sp - 1)
        encoded == SubSeq(auth_header, sp + 1, Len(auth_header))
        decoded == B64Decode(encoded)
        colon == Find(decoded.bytes, 58)
        input_username == SubSeq(decoded.bytes, 1, colon - 1)
        input_password == SubSeq(decoded.bytes, colon + 1, Len(decoded.bytes))
    IN  IF sp = 0 THEN rejected
        ELSE IF ~SchemeMatches(scheme) THEN rejected
        ELSE IF ~decoded.ok \/ ~Utf8Ok(decoded.bytes) THEN rejected
        ELSE IF colon = 0 THEN rejected
        ELSE IF input_username = USERNAME /\ input_password = PASSWORD
        THEN [ok |-> TRUE, user |-> input_username]
        ELSE rejected

\* do_HEAD: the status sent, the WWW-Authenticate header (<<>>: not sent)
\* and the username that send_response logs through log_request.
DoHead(auth_header, path) ==
    LET a == Authenticate(auth_header)
    IN  IF ~a.ok
        THEN [status |-> 401, challenge |-> Challenge, user |-> a.user]
        ELSE IF StartsWith(path, EvidencePrefix)
        THEN [status |-> 200, challenge |-> <<>>, user |-> a.user]
        ELSE [status |-> 404, challenge |-> <<>>, user |-> a.user]

\* The server before it has been given a request.
Idle == [auth_header |-> None, path |-> <<>>, handled |-> FALSE,
         status |-> 0, challenge |-> <<>>, user |-> Dash,
         kind |-> "none", under |-> FALSE]

Holding == {t \in Tasks : pc[t] \in {"inflight", "exiting"}}

\* The state main() is in when it enters the build loop, for the request
\* counts, base URL paths and server inputs given.
InitWith(counts, bases, requests) ==
    /\ args \in [base : bases, username : {USERNAME}, password : {PASSWORD}]
    /\ srv \in requests
    /\ url = [t \in Tasks |-> <<>>]
    /\ arrival = [t \in Tasks |-> 0]
    /\ calls = [t \in Tasks |-> 0]
    /\ report = <<>>
    /\ request_count \in counts
    /\ concurrency \in 1..MaxConcurrency
    /\ mainpc = "build"
    /\ i = 0
    /\ progress = 0
    /\ pauses = 0
    /\ semaphore = concurrency
    /\ pc = [t \in Tasks |-> "absent"]
    /\ start_time = [t \in Tasks |-> 0]
    /\ status = [t \in Tasks |-> Unbound]
    /\ stats = [total_requests |-> request_count,
                successful_requests |-> 0,
                failed_requests |-> 0,
                status_code_counts |-> EmptyCounter,
                total_time_per_request |-> <<>>]
    /\ now = 0
    /\ cause = [t \in Tasks |-> "none"]
    /\ code = [t \in Tasks |-> 0]
    /\ incS = [t \in Tasks |-> 0]
    /\ incF = [t \in Tasks |-> 0]
    /\ finallyRuns = [t \in Tasks |-> 0]
    /\ recorded = [t \in Tasks |-> 0]

Init == InitWith(0..MaxRequests, {<<>>}, {Idle})


(* ------------------------------ main() -------------------------------- *)

\* Mutant: the build loop sleeps wherever it writes a progress line.
ProgressStepSleepy(n, total, shown) ==
    IF n % ProgressEvery = 0 THEN <<n, 1>>
    ELSE IF n = total THEN <<n, 0>>
    ELSE <<shown, 0>>

\* The progress branch of one loop iteration, n = i + 1 submissions made:
\* <<value written to the progress line, number of sleeps>>.
ProgressStep(n, total, shown) ==
    IF n % PauseEvery = 0 THEN <<n, 1>>
    ELSE IF n % ProgressEvery = 0 \/ n = total THEN <<n, 0>>
    ELSE <<shown, 0>>

\* Values of random.randint(0, 255).
RandomBytes == {10, 255}

\* The local state of coroutine k is set, for the coroutines followed.
Put(f, k, v) == IF k \in DOMAIN f THEN [f EXCEPT ![k] = v] ELSE f

\* One iteration of the build loop, the random byte drawn from `bytes`: a
\* coroutine object is created and appended to tasks; it does not run.
SubmitFrom(bytes) ==
    /\ mainpc = "build"
    /\ i < request_count
    /\ \E b \in bytes :
         url' = Put(url, i + 1, TargetPath(args.base, b))
    /\ pc' = Put(pc, i + 1, "created")
    /\ i' = i + 1
    /\ progress' = ProgressStep(i + 1, request_count, progress)[1]
    /\ pauses' = pauses + ProgressStep(i + 1, request_count, progress)[2]
    /\ UNCHANGED <<args, srv, arrival, calls, report,
                   request_count, concurrency, mainpc, semaphore, start_time,
                   status, stats, now, cause, code, incS, incF, finallyRuns,
                   recorded>>

\* Against an arbitrary target the URL has no influence on what the
\* network does: one value of the random byte is followed.
Submit == SubmitFrom({171})

\* main() reaches `await asyncio.gather(*tasks)`: the coroutines become
\* tasks and main() suspends.
Gather ==
    /\ mainpc = "build"
    /\ i = request_count
    /\ mainpc' = "gather"
    /\ UNCHANGED <<args, srv, url, arrival, calls, report,
                   request_count, concurrency, i, progress, pauses, semaphore,
                   pc, start_time, status, stats, now, cause, code, incS,
                   incF, finallyRuns, recorded>>

\* Python's ordering of str: by code point, a proper prefix first.
RECURSIVE LexLess(_, _)
LexLess(a, b) ==
    IF Len(b) = 0 THEN FALSE
    ELSE IF Len(a) = 0 THEN TRUE
    ELSE IF a[1] # b[1] THEN a[1] < b[1]
    ELSE LexLess(Tail(a), Tail(b))

\* Mutant: the distribution is sorted in descending order.
KeyBeforeDescending(a, b) == LexLess(b, a)

\* The order sorted() gives the (status, count) items: by status, the
\* keys of a Counter being distinct.
KeyBefore(a, b) == LexLess(a, b)

RECURSIVE SortKeys(_)
SortKeys(ks) ==
    IF ks = {} THEN <<>>
    ELSE LET m == CHOOSE k \in ks : \A o \in ks \ {k} : KeyBefore(k, o)
         IN  <<m>> \o SortKeys(ks \ {m})

\* sorted(stats['status_code_counts'].items()): one line per item.
SortedItems(c) ==
    LET keys == SortKeys(DOMAIN c)
    IN  [k \in 1..Len(keys) |-> <<keys[k], c[keys[k]]>>]

\* Mutant: gather returns as soon as one task has returned.
GatherAnyDone ==
    request_count = 0 \/ \E t \in 1..request_count : pc[t] = "done"

\* gather returns once every task has returned.
GatherDone == \A t \in 1..request_count : pc[t] = "done"

\* gather (return_exceptions not set) raises the first exception of a task.
GatherFailed == \E t \in 1..request_count : pc[t] = "raised"

\* gather returns, the session closes and the report is printed.
Report ==
    /\ mainpc = "gather"
    /\ GatherDone
    /\ mainpc' = "report"
    /\ report' = SortedItems(stats.status_code_counts)
    /\ UNCHANGED <<args, srv, url, arrival, calls,
                   request_count, concurrency, i, progress, pauses, semaphore,
                   pc, start_time, status, stats, now, cause, code, incS,
                   incF, finallyRuns, recorded>>

\* gather raises into main(), which has no handler: main() ends with the
\* exception, no report is printed, asyncio.run cancels what is left.
GatherRaise ==
    /\ mainpc = "gather"
    /\ GatherFailed
    /\ mainpc' = "aborted"
    /\ UNCHANGED <<args, srv, url, arrival, calls, report,
                   request_count, concurrency, i, progress, pauses, semaphore,
                   pc, start_time, status, stats, now, cause, code, incS,
                   incF, finallyRuns, recorded>>

(* ---------------------------- fetch_head ------------------------------ *)

\* Mutant: the permit test is off by one and admits a task at zero.
CanAcquireAtZero(value) == value >= 0

\* Semaphore.acquire returns at once only with a free permit.
CanAcquire(value) == value > 0

\* Mutant: start_time is taken before the gate is entered.
StartTimeAtGate(reached, admitted) == reached

\* start_time, for a task that reached the gate at `reached` and was
\* admitted at `admitted`: line 12 runs inside `async with semaphore`.
StartTime(reached, admitted) == admitted

\* Mutant: the permit is given back only when the body returns.
ReleaseUnlessRaised(value, propagates) ==
    IF propagates THEN value ELSE value + 1

\* Leaving `async with semaphore`, with or without an exception
\* propagating: the permit is given back.
Release(value, propagates) == value + 1

\* Mutant: a request that met a network error is issued again.
ReturnedOrRetried(h) ==
    IF h = "none" THEN "raised" ELSE IF h = "ClientError" THEN "created" ELSE "done"

\* Where fetch_head is after its try statement has met an exception
\* handled by clause h: it has returned, or the exception has left it.
Returned(h) == IF h = "none" THEN "raised" ELSE "done"

\* Mutant: the latency is appended whether or not the label was counted.
FinallyAlwaysTimed(s, label, elapsed) ==
    IF label = Unbound THEN [s EXCEPT !.total_time_per_request = Append(@, elapsed)]
    ELSE [s EXCEPT !.status_code_counts = CounterInc(@, label),
                   !.total_time_per_request = Append(@, elapsed)]

\* The finally block: with status bound, count the label and append the
\* elapsed time; with status unbound the first statement raises
\* UnboundLocalError and nothing is recorded.
Finally(s, label, elapsed) ==
    IF label = Unbound THEN s
    ELSE [s EXCEPT !.status_code_counts = CounterInc(@, label),
                   !.total_time_per_request = Append(@, elapsed)]

\* Mutant: a coroutine starts running as soon as it has been created.
ScheduledAtCreation(m) == m \in {"build", "gather"}

\* The coroutines are only handed to the event loop by gather, and run
\* while main() is suspended in it.
Scheduled(m) == m = "gather"

\* First step of a task: `async with semaphore`, then start_time, then the
\* HEAD call is awaited.  Without a free permit the task waits in acquire.
Start(t) ==
    /\ Scheduled(mainpc)
    /\ pc[t] = "created"
    /\ IF CanAcquire(semaphore)
       THEN /\ semaphore' = semaphore - 1
            /\ start_time' = [start_time EXCEPT ![t] = StartTime(now, now)]
            /\ calls' = [calls EXCEPT ![t] = @ + 1]
            /\ pc' = [pc EXCEPT ![t] = "inflight"]
            /\ UNCHANGED arrival
       ELSE /\ pc' = [pc EXCEPT ![t] = "waiting"]
            /\ arrival' = [arrival EXCEPT ![t] = now]
            /\ UNCHANGED <<semaphore, start_time, calls>>
    /\ UNCHANGED <<args, srv, url, report,
                   request_count, concurrency, mainpc, i, progress, pauses,
                   status, stats, now, cause, code, incS, incF,
                   finallyRuns, recorded>>

\* A waiting task is woken with a permit.
Acquire(t) ==
    /\ mainpc = "gather"
    /\ pc[t] = "waiting"
    /\ CanAcquire(semaphore)
    /\ semaphore' = semaphore - 1
    /\ start_time' = [start_time EXCEPT ![t] = StartTime(arrival[t], now)]
    /\ arrival' = [arrival EXCEPT ![t] = 0]
    /\ calls' = [calls EXCEPT ![t] = @ + 1]
    /\ pc' = [pc EXCEPT ![t] = "inflight"]
    /\ UNCHANGED <<args, srv, url, report,
                   request_count, concurrency, mainpc, i, progress, pauses,
                   status, stats, now, cause, code, incS, incF,
                   finallyRuns, recorded>>

\* The HEAD call is answered: the body of `async with session.head(url)`
\* runs, then the task awaits the exit of the response context.
HeadResponseFrom(t, codes) ==
    /\ mainpc = "gather"
    /\ pc[t] = "inflight"
    /\ \E c \in codes :
         /\ code' = [code EXCEPT ![t] = c]
         /\ status' = [status EXCEPT ![t] = Str(c)]
    /\ cause' = [cause EXCEPT ![t] = "response"]
    /\ stats' = [stats EXCEPT !.successful_requests = @ + 1]
    /\ incS' = [incS EXCEPT ![t] = @ + 1]
    /\ pc' = [pc EXCEPT ![t] = "exiting"]
    /\ UNCHANGED <<args, srv, url, arrival, calls, report,
                   request_count, concurrency, mainpc, i, progress, pauses,
                   semaphore, start_time, now, incF, finallyRuns,
                   recorded>>

\* An arbitrary target answers with any status code.
HeadResponse(t) == HeadResponseFrom(t, StatusCodes)

\* The reference server answers the request the session sends: the
\* Authorization header of the session's BasicAuth, the path of the URL.
HeadAnswered(t) ==
    HeadResponseFrom(t, {DoHead(BasicAuthHeader(args.username, args.password),
                                url[t]).status})

\* An exception e reaches the try statement of task t whose status local is
\* `bound` so far: the matching except clause, the finally block, the
\* release of the semaphore.
Except(t, e, bound) ==
    LET h == Handler(e)
        label == IF h = "none" THEN bound ELSE HandlerLabel(h)
        failed == IF h = "none" THEN 0 ELSE 1
    IN  /\ status' = [status EXCEPT ![t] = label]
        /\ stats' = Finally([stats EXCEPT !.failed_requests = @ + failed],
                            label, now - start_time[t])
        /\ incF' = [incF EXCEPT ![t] = @ + failed]
        /\ finallyRuns' = [finallyRuns EXCEPT ![t] = @ + 1]
        /\ recorded' = [recorded EXCEPT ![t] = IF label = Unbound THEN @ ELSE @ + 1]
        /\ semaphore' = Release(semaphore, h = "none")
        /\ pc' = [pc EXCEPT ![t] = Returned(h)]

\* The HEAD call raises instead of answering.
HeadRaise(t) ==
    /\ mainpc = "gather"
    /\ pc[t] = "inflight"
    /\ \E c \in {"network", "timeout", "other"} :
         /\ cause' = [cause EXCEPT ![t] = c]
         /\ \E e \in RaisedBy(c) : Except(t, e, status[t])
    /\ UNCHANGED <<args, srv, url, arrival, calls, report,
                   request_count, concurrency, mainpc, i, progress, pauses,
                   start_time, now, code, incS>>

\* The response context is left without an exception: finally, release.
ExitOk(t) ==
    /\ mainpc = "gather"
    /\ pc[t] = "exiting"
    /\ stats' = Finally(stats, status[t], now - start_time[t])
    /\ finallyRuns' = [finallyRuns EXCEPT ![t] = @ + 1]
    /\ recorded' = [recorded EXCEPT ![t] = @ + 1]
    /\ semaphore' = Release(semaphore, FALSE)
    /\ pc' = [pc EXCEPT ![t] = "done"]
    /\ UNCHANGED <<args, srv, url, arrival, calls, report,
                   request_count, concurrency, mainpc, i, progress, pauses,
                   start_time, status, now, cause, code, incS, incF>>

\* Leaving the response context raises: the exception is raised inside the
\* same try statement, after the body has run.
ExitRaise(t) ==
    /\ mainpc = "gather"
    /\ pc[t] = "exiting"
    /\ \E e \in Exceptions : Except(t, e, status[t])
    /\ UNCHANGED <<args, srv, url, arrival, calls, report,
                   request_count, concurrency, mainpc, i, progress, pauses,
                   start_time, now, cause, code, incS>>

\* After main() has ended with an exception asyncio.run cancels every task
\* still pending: CancelledError is raised at the await the task is
\* suspended in.  It matches neither except clause.
Cancel(t) ==
    /\ mainpc = "aborted"
    /\ pc[t] \in {"created", "waiting", "inflight", "exiting"}
    /\ IF pc[t] \in {"created", "waiting"}
       THEN /\ pc' = [pc EXCEPT ![t] = "cancelled"]
            /\ UNCHANGED <<semaphore, status, stats, incF, finallyRuns, recorded>>
       ELSE Except(t, [client |-> FALSE, timeout |-> FALSE], status[t])
    /\ cause' = [cause EXCEPT ![t] = IF pc[t] = "inflight" THEN "cancelled" ELSE @]
    /\ UNCHANGED <<args, srv, url, arrival, calls, report,
                   request_count, concurrency, mainpc, i, progress, pauses,
                   start_time, now, code, incS>>

\* time.perf_counter() advances.  The clock is read only by fetch_head,
\* on acquiring the gate and in the finally block, so only the time that
\* passes while a request holds the gate can be observed.
Tick ==
    /\ now < MaxTime
    /\ mainpc = "gather"
    /\ Holding # {}
    /\ now' = now + 1
    /\ UNCHANGED <<args, srv, url, arrival, calls, report,
                   request_count, concurrency, mainpc, i, progress, pauses,
                   semaphore, pc, start_time, status, stats, cause, code,
                   incS, incF, finallyRuns, recorded>>

Next ==
    \/ Submit
    \/ Gather
    \/ Report
    \/ GatherRaise
    \/ Tick
    \/ \E t \in Tasks : Start(t)
    \/ \E t \in Tasks : Acquire(t)
    \/ \E t \in Tasks : HeadResponse(t)
    \/ \E t \in Tasks : HeadRaise(t)
    \/ \E t \in Tasks : ExitOk(t)
    \/ \E t \in Tasks : ExitRaise(t)
    \/ \E t \in Tasks : Cancel(t)

Spec == Init /\ [][Next]_vars

\* A run against the reference server over a network that does not fail:
\* every HEAD call is answered by do_HEAD.  The base URL is the server's
\* root, with or without a trailing slash.
SubmitRef == SubmitFrom(RandomBytes)

RefInit == InitWith(0..MaxRequests, {<<>>, <<47>>}, {Idle})

RefNext ==
    \/ SubmitRef
    \/ Gather
    \/ Report
    \/ Tick
    \/ \E t \in Tasks : Start(t)
    \/ \E t \in Tasks : Acquire(t)
    \/ \E t \in Tasks : HeadAnswered(t)
    \/ \E t \in Tasks : ExitOk(t)

RefSpec == RefInit /\ [][RefNext]_vars

\* The reference server alone, given one HEAD request.
WrongPassword == <<119, 114, 111, 110, 103>>
OtherUser == <<97, 100, 109, 105, 110>>
SchemeBearer == <<66, 101, 97, 114, 101, 114>>
MatchingCredentials == B64Encode(USERNAME \o <<58>> \o PASSWORD)

\* Authorization headers, each with the way it was made.
ServerHeaders ==
    { [kind |-> "missing", auth_header |-> None],
      [kind |-> "noscheme", auth_header |-> MatchingCredentials],
      [kind |-> "otherscheme",
       auth_header |-> SchemeBearer \o <<32>> \o MatchingCredentials],
      [kind |-> "wrongpassword",
       auth_header |-> BasicAuthHeader(USERNAME, WrongPassword)],
      [kind |-> "wronguser",
       auth_header |-> BasicAuthHeader(OtherUser, PASSWORD)],
      [kind |-> "nocolon",
       auth_header |-> SchemeBasic \o <<32>> \o B64Encode(USERNAME)],
      [kind |-> "truncated",
       auth_header |-> SubSeq(BasicAuthHeader(USERNAME, PASSWORD), 1,
                              Len(BasicAuthHeader(USERNAME, PASSWORD)) - 1)],
      [kind |-> "matching",
       auth_header |-> BasicAuthHeader(USERNAME, PASSWORD)],
      [kind |-> "matchinglowercase",
       auth_header |-> SchemeBasic \o <<32>> \o MatchingCredentials],
      [kind |-> "matchingstray",
       auth_header |-> BasicAuthHeader(USERNAME, PASSWORD) \o <<33>>] }

\* Request paths, each with whether it lies under /evidence/.
ServerPaths ==
    { [under |-> TRUE, path |-> EvidencePrefix \o Hex2(171)],
      [under |-> TRUE, path |-> EvidencePrefix],
      [under |-> FALSE, path |-> SubSeq(EvidencePrefix, 1, Len(EvidencePrefix) - 1)],
      [under |-> FALSE, path |-> <<47>>],
      [under |-> FALSE, path |-> <<47, 120>> \o EvidencePrefix \o Hex2(171)],
      [under |-> FALSE, path |-> <<47, 69>> \o SubSeq(EvidencePrefix, 3, Len(EvidencePrefix))] }

ServerRequests ==
    { [Idle EXCEPT !.auth_header = h.auth_header, !.kind = h.kind,
                   !.path = p.path, !.under = p.under] :
          h \in ServerHeaders, p \in ServerPaths }

ServerInit == InitWith({0}, {<<>>}, ServerRequests)

\* The handler answers the HEAD request: do_HEAD, whose send_response
\* logs the request with username_for_log.
ServeHead ==
    /\ ~srv.handled
    /\ srv' = [srv EXCEPT !.handled = TRUE,
                          !.status = DoHead(srv.auth_header, srv.path).status,
                          !.challenge = DoHead(srv.auth_header, srv.path).challenge,
                          !.user = DoHead(srv.auth_header, srv.path).user]
    /\ UNCHANGED <<args, url, arrival, calls, report, request_count,
                   concurrency, mainpc, i, progress, pauses, semaphore, pc,
                   start_time, status, stats, now, cause, code, incS, incF,
                   finallyRuns, recorded>>

ServerSpec == ServerInit /\ [][ServeHead]_vars

\* The build loop at its real scale.  Of the coroutines only the first
\* MaxRequests are followed, and only to their first step.
PacingCounts == {1000, 10000, 20001}

PacingInit == InitWith(PacingCounts, {<<>>}, {Idle})

PacingNext ==
    \/ Submit
    \/ Gather
    \/ \E t \in Tasks : Start(t)

PacingSpec == PacingInit /\ [][PacingNext]_vars

\* The event loop runs every ready callback, so main() and every task take
\* their next step once it stays possible; the semaphore wakes its waiters
\* in turn; every HEAD call and every exit of a response context ends.
FairSpec ==
    /\ Spec
    /\ WF_vars(Submit) /\ WF_vars(Gather) /\ WF_vars(Report) /\ WF_vars(GatherRaise)
    /\ \A t \in Tasks :
         /\ WF_vars(Start(t))
         /\ SF_vars(Acquire(t))
         /\ WF_vars(HeadResponse(t) \/ HeadRaise(t))
         /\ WF_vars(ExitOk(t) \/ ExitRaise(t))
         /\ WF_vars(Cancel(t))

(* ------------------------------ claims -------------------------------- *)

Requests == 1..request_count
Labels == {Str(c) : c \in StatusCodes} \cup {NetworkError, Timeout}

\* C1: at no time do more than `concurrency` fetch_head tasks hold the
\* semaphore (acquired and not yet released).
ConcurrencyBound == Cardinality(Holding) <= concurrency

\* C1 witness: the gate is full and a task is waiting at it.
GateFullWithWaiter ==
    /\ Cardinality(Holding) = concurrency
    /\ \E t \in Tasks : pc[t] = "waiting"

\* C2: once the report is produced, successful_requests + failed_requests
\* equals total_requests, and the status_code_counts values sum to it too.
Conservation ==
    mainpc = "report" =>
        /\ stats.successful_requests + stats.failed_requests = stats.total_requests
        /\ CounterTotal(stats.status_code_counts) = stats.total_requests

\* C3: when the report has been printed every one of the request_count
\* tasks has finished and has run its stats update exactly once.
ReportAfterAllRecorded ==
    mainpc = "report" =>
        \A t \in Requests : pc[t] = "done" /\ recorded[t] = 1 /\ finallyRuns[t] = 1

\* C3 witness: a report printed after two requests.
ReportOfTwo == mainpc = "report" /\ request_count = 2

\* C4: no failure of a request is raised out of a task and out of gather,
\* and the run is never aborted before the report.
FailureIsolation ==
    /\ mainpc # "aborted"
    /\ \A t \in Tasks : pc[t] # "raised"

\* C5: each request increments exactly one of successful_requests and
\* failed_requests, once: never both, and a request that has returned from
\* fetch_head exactly one.
CountersExclusive ==
    \A t \in Tasks :
        /\ ~(incS[t] >= 1 /\ incF[t] >= 1)
        /\ pc[t] = "done" => incS[t] + incF[t] = 1

\* C6: every request that has left fetch_head has exactly one outcome label
\* and incremented one entry of status_code_counts once; the finally block
\* never finds status unbound.
ClassificationComplete ==
    \A t \in Tasks :
        /\ finallyRuns[t] = recorded[t]
        /\ pc[t] \in {"done", "raised"} => status[t] \in Labels /\ recorded[t] = 1

\* C7: in every state the latency list is as long as
\* successful_requests + failed_requests.
LatencyBookkeeping ==
    Len(stats.total_time_per_request) =
        stats.successful_requests + stats.failed_requests

\* C8: a request that received a response is labelled with the decimal
\* string of its status code and counted successful, not failed; when all
\* requests of a finished run were answered 401, all are under "401".
ResponseIsSuccess ==
    /\ \A t \in Tasks :
           (cause[t] = "response" /\ pc[t] \in {"done", "raised"}) =>
               status[t] = Str(code[t]) /\ incS[t] = 1 /\ incF[t] = 0
    /\ (/\ mainpc = "report"
        /\ request_count > 0
        /\ \A t \in Requests : cause[t] = "response" /\ code[t] = 401) =>
           /\ stats.status_code_counts = (<<52, 48, 49>> :> request_count)
           /\ stats.successful_requests = request_count
           /\ stats.failed_requests = 0

\* C9: a request whose connect timeout elapsed is labelled Timeout and
\* incremented failed_requests once, whatever class signalled the timeout.
TimeoutLabelled ==
    \A t \in Tasks :
        (cause[t] = "timeout" /\ pc[t] \in {"done", "raised"}) =>
            status[t] = Timeout /\ incF[t] = 1

\* C10: a request that met a network-level error is labelled NetworkError
\* and counted failed, not successful; when every request of a finished
\* run met one, status_code_counts is {NetworkError: N}, failed_requests N
\* and successful_requests 0.
NetworkErrorLabelled ==
    /\ \A t \in Tasks :
           (cause[t] = "network" /\ pc[t] \in {"done", "raised"}) =>
               status[t] = NetworkError /\ incF[t] = 1 /\ incS[t] = 0
    /\ (/\ mainpc = "report"
        /\ request_count > 0
        /\ \A t \in Requests : cause[t] = "network") =>
           /\ stats.status_code_counts = (NetworkError :> request_count)
           /\ stats.failed_requests = request_count
           /\ stats.successful_requests = 0

\* C10 witness: a finished run of two requests, both refused.
AllUnreachable ==
    /\ mainpc = "report"
    /\ request_count = 2
    /\ \A t \in Requests : cause[t] = "network"

\* C11: under fair scheduling, HEAD calls all ending, every waiting task is
\* eventually admitted by the gate and the run eventually reaches the
\* report, every task having finished.
Termination ==
    /\ \A t \in Tasks : (pc[t] = "waiting") ~> (pc[t] = "inflight")
    /\ <>(mainpc = "report" /\ \A t \in Requests : pc[t] = "done")

Finished == {"done", "raised", "cancelled"}

\* C12: the permits of the semaphore are exactly those not held by a task
\* inside the gate, whatever way the tasks before left it; once all tasks
\* have finished every permit is free.
GateReleased ==
    /\ semaphore = concurrency - Cardinality(Holding)
    /\ (mainpc # "build" /\ \A t \in Requests : pc[t] \in Finished) =>
           semaphore = concurrency

\* C12 witness: two requests have finished, one of them by an exception
\* that left fetch_head, and every permit is free.
AllReleasedAfterRaise ==
    /\ request_count = 2
    /\ \A t \in Requests : pc[t] \in Finished
    /\ \E t \in Requests : pc[t] = "raised" /\ calls[t] = 1
    /\ semaphore = concurrency

\* C13: no request issues more than one HEAD call, a finished one issued
\* exactly one, and the calls issued never exceed request_count.
NoRetries ==
    /\ \A t \in Tasks : calls[t] <= 1
    /\ \A t \in Tasks : pc[t] \in {"done", "raised"} => calls[t] = 1
    /\ Cardinality({t \in Tasks : calls[t] > 0}) <= request_count

\* C13 witness: a run has ended with a request that failed and was not
\* issued again.
FailedIsFinal ==
    /\ mainpc = "report"
    /\ \E t \in Requests : incF[t] = 1 /\ incS[t] = 0 /\ calls[t] = 1

\* {"404": 3, "200": 7, "Timeout": 2, "NetworkError": 1}
ExampleCounts ==
    (Str(404) :> 3) @@ (Str(200) :> 7) @@ (Timeout :> 2) @@ (NetworkError :> 1)

\* C16: the report lists every label of status_code_counts once, with its
\* count, in ascending lexicographic order of the labels; the example
\* counts are listed 200, 404, NetworkError, Timeout.
ReportSorted ==
    /\ SortedItems(ExampleCounts) =
           << <<(<<50, 48, 48>>), 7>>, <<(<<52, 48, 52>>), 3>>,
              <<NetworkError, 1>>, <<Timeout, 2>> >>
    /\ mainpc = "report" =>
         /\ \A k \in 1..(Len(report) - 1) : LexLess(report[k][1], report[k + 1][1])
         /\ {report[k][1] : k \in 1..Len(report)} = DOMAIN stats.status_code_counts
         /\ Len(report) = Cardinality(DOMAIN stats.status_code_counts)
         /\ \A k \in 1..Len(report) :
                report[k][2] = stats.status_code_counts[report[k][1]]

\* C16 witness: a report of two labels.
ReportOfTwoLabels == mainpc = "report" /\ Len(report) = 2

\* C18: a request first acquires the gate, taking its start time and
\* issuing its HEAD call at that moment; it updates the stats only while
\* it holds the gate; it releases the gate in the step that records its
\* latency, which is measured from the admission.
RequestOrdering ==
    [][\A t \in Tasks :
         /\ (pc[t] \in {"created", "waiting"} /\ pc'[t] = "inflight") =>
                /\ semaphore' = semaphore - 1
                /\ start_time'[t] = now
                /\ calls'[t] = calls[t] + 1
                /\ stats' = stats
         /\ (incS'[t] # incS[t] \/ incF'[t] # incF[t] \/ recorded'[t] # recorded[t]) =>
                pc[t] \in {"inflight", "exiting"} /\ calls[t] = 1
         /\ (pc[t] \in {"inflight", "exiting"} /\ pc'[t] \in {"done", "raised"}) =>
                /\ semaphore' = semaphore + 1
                /\ recorded'[t] = recorded[t] + 1 =>
                       stats'.total_time_per_request =
                           Append(stats.total_time_per_request, now - start_time[t])
      ]_vars

\* C18 witness: with one permit, a request admitted after another one has
\* recorded its outcome.
RecordedAfterWaiting ==
    /\ concurrency = 1
    /\ \E t, u \in Requests :
         /\ pc[t] = "done" /\ pc[u] = "done"
         /\ recorded[t] = 1
         /\ start_time[t] > start_time[u]

\* C20: in every state the values of status_code_counts sum to the length
\* of the latency list.
CountsMatchLatencies ==
    CounterTotal(stats.status_code_counts) = Len(stats.total_time_per_request)

\* C20 witness: one request has recorded its outcome while another is
\* between its own counter update and its finally block.
RecordedWhileOtherExits ==
    /\ Len(stats.total_time_per_request) = 1
    /\ \E t \in Requests : pc[t] = "exiting"

\* C14: counted on submissions, the build loop has slept once per multiple
\* of 10,000 submissions made and at no other count, and the progress line
\* shows the last multiple of 1000 submitted (or the total, at the end).
Pacing ==
    /\ pauses = i \div PauseEvery
    /\ progress = IF i = request_count THEN i
                  ELSE (i \div ProgressEvery) * ProgressEvery

\* C14 witness: 20,001 submissions made, two pauses taken.
TwoPauses == i = 20001 /\ pauses = 2 /\ progress = 20001

Started == \E t \in Tasks : pc[t] \notin {"absent", "created"}

\* C17: a request is waiting at the gate or in flight only once all
\* request_count coroutines have been built, and from the first one that
\* is, the build loop pauses no more.
BuiltBeforeRun ==
    [][/\ Started' => (mainpc' = "gather" /\ i' = request_count)
       /\ Started' => pauses' = pauses
      ]_vars

\* C17 witness: after a run of pauses, one request in flight and another
\* waiting at the gate.
RunningAfterPauses ==
    /\ pauses = 2
    /\ \E t, u \in Tasks : pc[t] = "inflight" /\ pc[u] = "waiting"

\* C15: a run against the reference server with the matching credentials:
\* every request is answered 200, and the run of N >= 1 requests ends with
\* successful_requests N, failed_requests 0 and status_code_counts {200: N}.
ReferenceRunAll200 ==
    /\ \A t \in Tasks : cause[t] = "response" => code[t] = 200
    /\ (mainpc = "report" /\ request_count > 0) =>
           /\ stats.successful_requests = request_count
           /\ stats.failed_requests = 0
           /\ stats.status_code_counts = (<<50, 48, 48>> :> request_count)

\* C15 witness: a finished run of two requests for different URLs, the
\* base URL given with a trailing slash.
ReferenceRunOfTwo ==
    /\ mainpc = "report"
    /\ request_count = 2
    /\ args.base = <<47>>
    /\ url[1] # url[2]

Authenticated == {"matching", "matchinglowercase", "matchingstray"}
Malformed == {"noscheme", "nocolon", "truncated", "matchingstray"}

\* What the claim of C19 says of a handled request whose header kinds
\* `accepted` carry the fixed pair and are answered by path: the others are
\* answered 401 with the challenge; the logged username is the fixed one
\* exactly when the status is not 401, else '-' or 'invalid_user'.
HeadHandling(accepted) ==
    srv.handled =>
        /\ srv.kind \notin accepted =>
               srv.status = 401 /\ srv.challenge = Challenge
        /\ srv.kind \in accepted =>
               /\ srv.status = IF srv.under THEN 200 ELSE 404
               /\ srv.challenge = <<>>
        /\ srv.user = USERNAME <=> srv.status # 401
        /\ srv.kind = "missing" => srv.user = Dash
        /\ (srv.kind # "missing" /\ srv.status = 401) => srv.user = InvalidUser

====
